---- MODULE Spec2Model ----
(***************************************************************************)
(* Model of the I18N manager of src/src/lib/i18n.ts.                       *)
(*                                                                         *)
(* A JavaScript string is a sequence of one-character strings, so that     *)
(* split, join, splice and replaceAll are computed character by character. *)
(* Locale identifiers are language tags: strings without '/'.              *)
(***************************************************************************)
EXTENDS Integers, Sequences, FiniteSets, TLC

\* Longest pathname given to the pathname methods, counted in '/'-separated segments.
MaxSegments == 4
\* Longest pathname a caller holds while it also localizes and calls Accessors.
MaxManagerSegments == 2
\* Most entries of an argument mapping passed to an Accessor.
MaxArgs == 2
\* Most accessor trees ever allocated (never reached by localize as written).
MaxObjects == 3

\* ------------------------------------------------------------------ values

\* The JavaScript values null and undefined: no string of characters equals them.
null == <<"null">>
undefined == <<"undefined">>

en == <<"e", "n">>
fr == <<"f", "r">>
cn == <<"c", "n">>
foo == <<"f", "o", "o">>
enfoo == <<"e", "n", "f", "o", "o">>

\* The locale identifiers callers pass (cn is never a key of a locales object).
LocaleIdentifiers == {en, fr, cn}

\* The path segments pathnames are drawn from.
Segments == {<<>>, en, fr, foo, enfoo}

Min(a, b) == IF a < b THEN a ELSE b
Max(a, b) == IF a > b THEN a ELSE b

\* ------------------------------------------------- String / Array built-ins

\* String.prototype.substring(start, end): the characters at the 0-based indexes
\* start..end-1, both clamped to the string.
substring(s, start, end) ==
  LET from == Min(Max(start, 0), Len(s))
      to == Min(Max(end, 0), Len(s))
  IN SubSeq(s, Min(from, to) + 1, Max(from, to))

\* String.prototype.split('/')
RECURSIVE split(_)
split(s) ==
  IF \A i \in 1..Len(s) : s[i] # "/"
  THEN <<s>>
  ELSE LET i == CHOOSE i \in 1..Len(s) : s[i] = "/" /\ \A j \in 1..(i - 1) : s[j] # "/"
       IN <<SubSeq(s, 1, i - 1)>> \o split(SubSeq(s, i + 1, Len(s)))

\* Array.prototype.join('/')
RECURSIVE join(_)
join(segments) ==
  IF Len(segments) = 0 THEN <<>>
  ELSE IF Len(segments) = 1 THEN segments[1]
  ELSE segments[1] \o <<"/">> \o join(Tail(segments))

\* Array.prototype.splice(start, deleteCount, ...items), start and deleteCount >= 0:
\* the array after the call.
splice(segments, start, deleteCount, items) ==
  LET len == Len(segments)
      actualStart == Min(start, len)
      actualDeleteCount == Min(Max(deleteCount, 0), len - actualStart)
  IN SubSeq(segments, 1, actualStart) \o items
       \o SubSeq(segments, actualStart + actualDeleteCount + 1, len)

\* The pathnames of at most n segments over Segments ("" is the one of <<"">>).
RECURSIVE SegmentLists(_)
SegmentLists(n) ==
  IF n = 0 THEN {<<>>}
  ELSE LET shorter == SegmentLists(n - 1)
       IN shorter \cup {Append(l, s) : l \in {x \in shorter : Len(x) = n - 1}, s \in Segments}

PathnamesOf(n) == {join(l) : l \in SegmentLists(n) \ {<<>>}}

Pathnames == PathnamesOf(MaxSegments)

\* String.prototype.indexOf: the abstract operation StringIndexOf, 0-based, -1 if absent.
StringIndexOf(string, searchValue, fromIndex) ==
  LET found == {i \in fromIndex..(Len(string) - Len(searchValue)) :
                  substring(string, i, i + Len(searchValue)) = searchValue}
  IN IF found = {} THEN -1 ELSE CHOOSE i \in found : \A j \in found : i <= j

\* The abstract operation GetSubstitution for a string pattern (no captures): in the
\* replacement text "$$" stands for "$" and "$&" for the matched text; "$" before
\* any other character of ArgValues stands for itself. (The two remaining patterns,
\* "$" before a backquote or a quote, need characters no replacement text here holds.)
RECURSIVE GetSubstitution(_, _, _, _)
GetSubstitution(matched, str, position, replacementTemplate) ==
  IF replacementTemplate = <<>> THEN <<>>
  ELSE LET ref == substring(replacementTemplate, 0, 2)
           afterRef == substring(replacementTemplate, 2, Len(replacementTemplate))
       IN IF ref = <<"$", "$">> THEN
            <<"$">> \o GetSubstitution(matched, str, position, afterRef)
          ELSE IF ref = <<"$", "&">> THEN
            matched \o GetSubstitution(matched, str, position, afterRef)
          ELSE <<Head(replacementTemplate)>>
                 \o GetSubstitution(matched, str, position, Tail(replacementTemplate))

\* String.prototype.replaceAll, step 2: the positions of the matches.
RECURSIVE matchPositions(_, _, _)
matchPositions(string, searchString, fromIndex) ==
  LET position == StringIndexOf(string, searchString, fromIndex)
  IN IF position = -1 THEN <<>>
     ELSE <<position>>
            \o matchPositions(string, searchString, position + Max(1, Len(searchString)))

\* String.prototype.replaceAll, step 3: the result built match by match.
RECURSIVE replaceMatches(_, _, _, _, _)
replaceMatches(string, searchString, replaceValue, positions, endOfLastMatch) ==
  IF positions = <<>> THEN substring(string, endOfLastMatch, Len(string))
  ELSE LET p == Head(positions)
       IN substring(string, endOfLastMatch, p)
            \o GetSubstitution(searchString, string, p, replaceValue)
            \o replaceMatches(string, searchString, replaceValue, Tail(positions),
                              p + Len(searchString))

\* String.prototype.replaceAll(searchString, replaceValue), both strings.
replaceAll(string, searchString, replaceValue) ==
  replaceMatches(string, searchString, replaceValue,
                 matchPositions(string, searchString, 0), 0)

\* Number::toString for a natural number.
RECURSIVE NumberToString(_)
NumberToString(n) ==
  LET digit == <<"0", "1", "2", "3", "4", "5", "6", "7", "8", "9">>[(n % 10) + 1]
  IN IF n < 10 THEN <<digit>> ELSE NumberToString(n \div 10) \o <<digit>>

\* String(argValue): an argument value is a string [s |-> ...] or a number [n |-> ...].
String(argValue) ==
  IF "s" \in DOMAIN argValue THEN argValue.s ELSE NumberToString(argValue.n)

\* --------------------------------------------------------- locales objects

\* typeof value === 'string': a DeepStringObject maps a key to a string
\* [str |-> ...] or to a nested object [obj |-> ...].
IsString(value) == "str" \in DOMAIN value

bar == <<"b", "a", "r">>

\* The locale of the tests, with one more leaf that holds two placeholders.
LocaleObject(child) ==
  [bar |-> [str |-> <<"f", "o", "o", " ", "{", "b", "a", "r", "}", " ", "b", "a", "z">>],
   foo |-> [str |-> bar],
   pair |-> [str |-> <<"{", "a", "}", "{", "b", "}", "{", "a", "}">>],
   nested |-> [obj |-> [child |-> [str |-> child]]]]

Locale(localeIdentifier) ==
  IF localeIdentifier = en THEN LocaleObject(<<"c", "h", "i", "l", "d">>)
  ELSE LocaleObject(<<"e", "n", "f", "a", "n", "t">>)

\* The locales objects a manager is constructed with.
LocalesObjects == {[l \in keys |-> Locale(l)] : keys \in {{}, {en}, {en, fr}}}

\* The argument mappings passed to an Accessor, as Object.entries lists them.
ArgKeys == {bar, <<"a">>, <<"b">>}
ArgValues == {[s |-> <<"X">>], [s |-> <<"{", "b", "}">>], [s |-> <<"$", "&">>], [n |-> 42]}

RECURSIVE EntryLists(_)
EntryLists(n) ==
  IF n = 0 THEN {<<>>}
  ELSE LET shorter == EntryLists(n - 1)
       IN shorter \cup
          {Append(l, <<k, v>>) :
             l \in {x \in shorter : Len(x) = n - 1}, k \in ArgKeys, v \in ArgValues}

ArgMappings ==
  {l \in EntryLists(MaxArgs) : \A i, j \in 1..Len(l) : i # j => l[i][1] # l[j][1]}

\* ------------------------------------------------------------------- state

VARIABLES
  pc,                          \* "new" before the constructor, then "ready" or "thrown"
  localesObject,               \* #localesObject
  availableLocalesIdentifiers, \* #availableLocalesIdentifiers
  defaultLocaleIdentifier,     \* #defaultLocaleIdentifier
  cachedLocales,               \* #cachedLocales: locale identifier -> reference
  heap,                        \* the LocalizedStrings objects created, by reference
  localizers,                  \* the <<locale, reference>> pairs localize() has returned
  pathname,                    \* the pathname the caller holds
  args,                        \* the argument mapping the caller holds
  result                       \* the last call: what was called, with what, and its outcome

vars == <<pc, localesObject, availableLocalesIdentifiers, defaultLocaleIdentifier,
          cachedLocales, heap, localizers, pathname, args, result>>

manager == <<pc, localesObject, availableLocalesIdentifiers, defaultLocaleIdentifier>>

\* No object returned.
NoValue == [undefined |-> TRUE]

NoResult ==
  [op |-> "none", pathname |-> <<>>, locale |-> undefined, ref |-> 0, keyPath |-> <<>>,
   args |-> <<>>, ret |-> undefined, value |-> NoValue, threw |-> "none"]

\* ------------------------------------------------------------ pure methods

\* Mutation of getLocaleIdentifierFromPathname: the locale is matched as a prefix of
\* the pathname (pathname.startsWith('/' + locale)) instead of as a whole segment.
getLocaleIdentifierByPrefix(p) ==
  LET matching == {l \in availableLocalesIdentifiers :
                     substring(p, 0, Len(l) + 1) = <<"/">> \o l}
  IN IF matching = {} THEN null ELSE CHOOSE l \in matching : TRUE

\* I18N.getLocaleIdentifierFromPathname
getLocaleIdentifierFromPathname(p) ==
  LET segments == split(p)
      localeSegment == IF Len(segments) >= 2 THEN segments[2] ELSE undefined
  IN IF localeSegment \in availableLocalesIdentifiers THEN localeSegment ELSE null

\* Mutation of getCanonicalPathname: every segment that is a locale is removed
\* (segments.filter(...)) instead of the one at index 1.
getCanonicalPathnameFiltered(p) ==
  LET locale == getLocaleIdentifierFromPathname(p)
  IN IF locale = null THEN p
     ELSE join(SelectSeq(split(p), LAMBDA segment : segment \notin availableLocalesIdentifiers))

\* Mutation of getCanonicalPathname: the locale segment is never removed.
getCanonicalPathnameUnchanged(p) == p

\* I18N.getCanonicalPathname
getCanonicalPathname(p) ==
  LET locale == getLocaleIdentifierFromPathname(p)
  IN IF locale = null THEN p
     ELSE join(splice(split(p), 1, 1, <<>>))

\* Mutation of localizePathname: the locale is pushed after the last segment
\* (segments.push(locale)) instead of spliced in at index 1.
localizePathnamePushed(p, locale) ==
  LET canonicalPathname == getCanonicalPathname(p)
      segments == split(canonicalPathname)
  IN join(Append(segments, locale))

\* Mutation of localizePathname: the pathname is split as given, not its canonical form.
localizePathnamePrefixed(p, locale) ==
  join(splice(split(p), 1, 0, <<locale>>))

\* I18N.localizePathname, past the check of the locale
localizePathname(p, locale) ==
  LET canonicalPathname == getCanonicalPathname(p)
      segments == split(canonicalPathname)
  IN join(splice(segments, 1, 0, <<locale>>))

\* Mutation of availableLocales: the getter returns this.#availableLocalesIdentifiers
\* itself.
availableLocalesShared == [shared |-> TRUE, elements |-> availableLocalesIdentifiers]

\* get availableLocales: new Set(this.#availableLocalesIdentifiers), a Set object of
\* its own (shared tells whether the object is the manager's own Set).
availableLocales == [shared |-> FALSE, elements |-> availableLocalesIdentifiers]

\* get defaultLocale
defaultLocale == defaultLocaleIdentifier

\* I18N.#createLocalizedStrings: a string becomes the closure over it, an object recurses.
RECURSIVE createLocalizedStrings(_)
createLocalizedStrings(object) ==
  [key \in DOMAIN object |->
     IF IsString(object[key])
     THEN [closure |-> object[key].str]
     ELSE [obj |-> createLocalizedStrings(object[key].obj)]]

\* Mutation of reduce: only the first entry of the argument mapping is applied.
reduceFirstOnly(entries, accumulator) ==
  IF entries = <<>> THEN accumulator
  ELSE replaceAll(accumulator, <<"{">> \o entries[1][1] \o <<"}">>, String(entries[1][2]))

\* The closure (args = {}) => Object.entries(args).reduce(...), called: entries is
\* Object.entries(args), accumulator starts as the captured value.
RECURSIVE reduce(_, _)
reduce(entries, accumulator) ==
  IF entries = <<>> THEN accumulator
  ELSE LET argKey == entries[1][1]
           argValue == entries[1][2]
       IN reduce(Tail(entries),
                 replaceAll(accumulator, <<"{">> \o argKey \o <<"}">>, String(argValue)))

Accessor(value, entries) == reduce(entries, value)

\* Member access localizer.a.b: the value at keyPath of a LocalizedStrings object.
RECURSIVE Member(_, _)
Member(localizedStrings, keyPath) ==
  IF Len(keyPath) = 1 THEN localizedStrings[keyPath[1]]
  ELSE Member(localizedStrings[keyPath[1]].obj, Tail(keyPath))

\* The key paths of the Accessors of a LocalizedStrings object.
RECURSIVE AccessorPaths(_)
AccessorPaths(localizedStrings) ==
  UNION {IF "closure" \in DOMAIN localizedStrings[key]
         THEN {<<key>>}
         ELSE {<<key>> \o rest : rest \in AccessorPaths(localizedStrings[key].obj)} :
         key \in DOMAIN localizedStrings}

\* i18n.keys: for every leaf of the Translation Tree, its key path as the ordered
\* sequence of its segments (i18n.keys.nested.child is ['nested', 'child']).
RECURSIVE keys(_, _)
keys(object, path) ==
  [key \in DOMAIN object |->
     IF IsString(object[key])
     THEN [path |-> path \o <<key>>]
     ELSE [obj |-> keys(object[key].obj, path \o <<key>>)]]

\* What a call returns: a value, or the error it threw.
Returns(value) == [threw |-> "none", value |-> value]
Throws(error) == [threw |-> error, value |-> NoValue]

\* Mutation of fromValues: the node reached is returned whatever it is, a sub-tree
\* included.
RECURSIVE fromValuesSubtree(_, _)
fromValuesSubtree(localizedTree, keyPath) ==
  IF keyPath = <<>> THEN Throws("InvalidPathError")
  ELSE IF keyPath[1] \notin DOMAIN localizedTree THEN Throws("InvalidPathError")
  ELSE LET node == localizedTree[keyPath[1]]
       IN IF Len(keyPath) = 1 THEN Returns(node)
          ELSE IF "closure" \in DOMAIN node THEN Throws("InvalidPathError")
          ELSE fromValuesSubtree(node.obj, Tail(keyPath))

\* i18n.fromValues(localizedTree, keyPath): the tree is walked one segment at a time;
\* a segment that is not a key of the current node fails (an Accessor has no keys), and
\* so does a walk that ends on an internal node, the tree itself for the empty path.
RECURSIVE fromValues(_, _)
fromValues(localizedTree, keyPath) ==
  IF keyPath = <<>> THEN Throws("InvalidPathError")
  ELSE IF keyPath[1] \notin DOMAIN localizedTree THEN Throws("InvalidPathError")
  ELSE LET node == localizedTree[keyPath[1]]
       IN IF "closure" \in DOMAIN node
          THEN IF Len(keyPath) = 1 THEN Returns(node) ELSE Throws("InvalidPathError")
          ELSE IF Len(keyPath) = 1 THEN Throws("InvalidPathError")
          ELSE fromValues(node.obj, Tail(keyPath))

\* -------------------------------------------------------------- operations

\* Before new I18N(...): no field is set, #cachedLocales is the empty Map.
Unconstructed ==
  /\ pc = "new"
  /\ localesObject = <<>>
  /\ availableLocalesIdentifiers = {}
  /\ defaultLocaleIdentifier = undefined
  /\ cachedLocales = <<>>
  /\ heap = <<>>
  /\ localizers = {}
  /\ result = NoResult

Init ==
  /\ Unconstructed
  /\ \/ pathname \in PathnamesOf(MaxManagerSegments) /\ args = <<>>
     \/ pathname = <<"/">> \o foo /\ args \in ArgMappings

InitPathname ==
  /\ Unconstructed
  /\ pathname \in Pathnames
  /\ args = <<>>

\* new I18N(locales, defaultLocaleArgument)
Constructor(locales, defaultLocaleArgument) ==
  /\ pc = "new"
  /\ localesObject' = locales
  /\ availableLocalesIdentifiers' = DOMAIN locales
  /\ IF defaultLocaleArgument \notin DOMAIN locales
     THEN /\ pc' = "thrown"
          /\ defaultLocaleIdentifier' = defaultLocaleIdentifier
          /\ result' = [NoResult EXCEPT !.op = "constructor", !.locale = defaultLocaleArgument,
                                        !.threw = "LocalNotFoundError"]
     ELSE /\ pc' = "ready"
          /\ defaultLocaleIdentifier' = defaultLocaleArgument
          /\ result' = [NoResult EXCEPT !.op = "constructor", !.locale = defaultLocaleArgument]
  /\ UNCHANGED <<cachedLocales, heap, localizers, pathname, args>>

\* Mutation of cachedLocalesHas: the cache is never hit.
cachedLocalesNeverHas(locale) == FALSE

\* this.#cachedLocales.has(locale)
cachedLocalesHas(locale) == locale \in DOMAIN cachedLocales

\* Mutation of Localize: the locale is checked after the cache is filled, from
\* createLocalizedStrings(this.#localesObject[locale] ?? {}).
LocalizeCheckedLast(locale) ==
  /\ pc = "ready"
  /\ Len(heap) < MaxObjects
  /\ heap' = Append(heap, createLocalizedStrings(
                            IF locale \in DOMAIN localesObject
                            THEN localesObject[locale] ELSE <<>>))
  /\ cachedLocales' = (locale :> Len(heap')) @@ cachedLocales
  /\ IF locale \notin availableLocalesIdentifiers
     THEN /\ result' = [NoResult EXCEPT !.op = "localize", !.locale = locale,
                                        !.threw = "LocalNotFoundError"]
          /\ UNCHANGED localizers
     ELSE /\ result' = [NoResult EXCEPT !.op = "localize", !.locale = locale,
                                        !.ref = Len(heap')]
          /\ localizers' = localizers \cup {<<locale, Len(heap')>>}
  /\ UNCHANGED <<manager, pathname, args>>

\* Mutation of Localize: the cache holds one entry, the last locale built
\* (this.#cachedLocales.clear() before set).
LocalizeSingleEntry(locale) ==
  /\ pc = "ready"
  /\ IF locale \notin availableLocalesIdentifiers
     THEN /\ result' = [NoResult EXCEPT !.op = "localize", !.locale = locale,
                                        !.threw = "LocalNotFoundError"]
          /\ UNCHANGED <<cachedLocales, heap, localizers>>
     ELSE IF cachedLocalesHas(locale)
     THEN /\ result' = [NoResult EXCEPT !.op = "localize", !.locale = locale,
                                        !.ref = cachedLocales[locale]]
          /\ localizers' = localizers \cup {<<locale, cachedLocales[locale]>>}
          /\ UNCHANGED <<cachedLocales, heap>>
     ELSE /\ Len(heap) < MaxObjects
          /\ heap' = Append(heap, createLocalizedStrings(localesObject[locale]))
          /\ cachedLocales' = (locale :> Len(heap'))
          /\ result' = [NoResult EXCEPT !.op = "localize", !.locale = locale,
                                        !.ref = Len(heap')]
          /\ localizers' = localizers \cup {<<locale, Len(heap')>>}
  /\ UNCHANGED <<manager, pathname, args>>

\* i18n.localize(locale)
Localize(locale) ==
  /\ pc = "ready"
  /\ IF locale \notin availableLocalesIdentifiers
     THEN /\ result' = [NoResult EXCEPT !.op = "localize", !.locale = locale,
                                        !.threw = "LocalNotFoundError"]
          /\ UNCHANGED <<cachedLocales, heap, localizers>>
     ELSE IF cachedLocalesHas(locale)
     THEN /\ result' = [NoResult EXCEPT !.op = "localize", !.locale = locale,
                                        !.ref = cachedLocales[locale]]
          /\ localizers' = localizers \cup {<<locale, cachedLocales[locale]>>}
          /\ UNCHANGED <<cachedLocales, heap>>
     ELSE /\ Len(heap) < MaxObjects
          /\ heap' = Append(heap, createLocalizedStrings(localesObject[locale]))
          /\ cachedLocales' = (locale :> Len(heap')) @@ cachedLocales
          /\ result' = [NoResult EXCEPT !.op = "localize", !.locale = locale,
                                        !.ref = Len(heap')]
          /\ localizers' = localizers \cup {<<locale, Len(heap')>>}
  /\ UNCHANGED <<manager, pathname, args>>

\* i18n.getLocaleIdentifierFromPathname(pathname)
GetLocaleIdentifierFromPathname ==
  /\ pc = "ready"
  /\ result' = [NoResult EXCEPT !.op = "getLocaleIdentifierFromPathname",
                                !.pathname = pathname,
                                !.ret = getLocaleIdentifierFromPathname(pathname)]
  /\ UNCHANGED <<manager, cachedLocales, heap, localizers, pathname, args>>

\* i18n.getCanonicalPathname(pathname)
GetCanonicalPathname ==
  /\ pc = "ready"
  /\ result' = [NoResult EXCEPT !.op = "getCanonicalPathname", !.pathname = pathname,
                                !.ret = getCanonicalPathname(pathname)]
  /\ UNCHANGED <<manager, cachedLocales, heap, localizers, pathname, args>>

\* Mutation of LocalizePathname: the locale is not checked.
LocalizePathnameUnchecked(locale) ==
  /\ pc = "ready"
  /\ result' = [NoResult EXCEPT !.op = "localizePathname", !.pathname = pathname,
                                !.locale = locale,
                                !.ret = localizePathname(pathname, locale)]
  /\ UNCHANGED <<manager, cachedLocales, heap, localizers, pathname, args>>

\* i18n.localizePathname(pathname, locale)
LocalizePathname(locale) ==
  /\ pc = "ready"
  /\ IF locale \notin availableLocalesIdentifiers
     THEN result' = [NoResult EXCEPT !.op = "localizePathname", !.pathname = pathname,
                                     !.locale = locale, !.threw = "LocalNotFoundError"]
     ELSE result' = [NoResult EXCEPT !.op = "localizePathname", !.pathname = pathname,
                                     !.locale = locale,
                                     !.ret = localizePathname(pathname, locale)]
  /\ UNCHANGED <<manager, cachedLocales, heap, localizers, pathname, args>>

\* localizer.a.b(args) on a localizer that localize() returned
CallAccessor(locale, ref, keyPath) ==
  /\ pc = "ready"
  /\ <<locale, ref>> \in localizers
  /\ keyPath \in AccessorPaths(heap[ref])
  /\ result' = [NoResult EXCEPT !.op = "accessor", !.locale = locale, !.ref = ref,
                                !.keyPath = keyPath, !.args = args,
                                !.ret = Accessor(Member(heap[ref], keyPath).closure, args)]
  /\ UNCHANGED <<manager, cachedLocales, heap, localizers, pathname, args>>

\* i18n.availableLocales
AvailableLocales ==
  /\ pc = "ready"
  /\ result' = [NoResult EXCEPT !.op = "availableLocales", !.value = availableLocales]
  /\ UNCHANGED <<manager, cachedLocales, heap, localizers, pathname, args>>

\* i18n.defaultLocale
DefaultLocale ==
  /\ pc = "ready"
  /\ result' = [NoResult EXCEPT !.op = "defaultLocale", !.ret = defaultLocale]
  /\ UNCHANGED <<manager, cachedLocales, heap, localizers, pathname, args>>

\* The caller changes the Set that i18n.availableLocales returned: the Set object
\* becomes elements, and so does the manager's Set if it is the same object.
SetMutated(elements) ==
  /\ pc = "ready"
  /\ result.op = "availableLocales"
  /\ result' = [result EXCEPT !.value.elements = elements]
  /\ availableLocalesIdentifiers' =
       IF result.value.shared THEN elements ELSE availableLocalesIdentifiers
  /\ UNCHANGED <<pc, localesObject, defaultLocaleIdentifier, cachedLocales, heap,
                 localizers, pathname, args>>

\* i18n.availableLocales.add(locale), on the Set the caller holds
SetAdd(locale) == SetMutated(result.value.elements \cup {locale})

\* i18n.availableLocales.delete(locale), on the Set the caller holds
SetDelete(locale) == SetMutated(result.value.elements \ {locale})

\* i18n.fromValues(localizer, keyPath), localizer being an object that localize(locale)
\* returned
FromValues(locale, ref, keyPath) ==
  /\ pc = "ready"
  /\ <<locale, ref>> \in localizers
  /\ LET returned == fromValues(heap[ref], keyPath)
     IN result' = [NoResult EXCEPT !.op = "fromValues", !.locale = locale, !.ref = ref,
                                   !.keyPath = keyPath, !.threw = returned.threw,
                                   !.value = returned.value]
  /\ UNCHANGED <<manager, cachedLocales, heap, localizers, pathname, args>>

KeyPaths == {<<"bar">>, <<"foo">>, <<"pair">>, <<"nested", "child">>}

Next ==
  \/ \E locales \in LocalesObjects, defaultLocaleArgument \in LocaleIdentifiers :
       Constructor(locales, defaultLocaleArgument)
  \/ \E locale \in LocaleIdentifiers : Localize(locale)
  \/ GetLocaleIdentifierFromPathname
  \/ GetCanonicalPathname
  \/ \E locale \in LocaleIdentifiers : LocalizePathname(locale)
  \/ \E locale \in LocaleIdentifiers, ref \in 1..MaxObjects, keyPath \in KeyPaths :
       CallAccessor(locale, ref, keyPath)

Spec == Init /\ [][Next]_vars

\* The manager with its two getters, and a caller that changes the Sets it is given.
InitCaller ==
  /\ Unconstructed
  /\ pathname \in PathnamesOf(MaxManagerSegments)
  /\ args = <<>>

NextCaller ==
  \/ Next
  \/ AvailableLocales
  \/ DefaultLocale
  \/ \E locale \in LocaleIdentifiers : SetAdd(locale)
  \/ \E locale \in LocaleIdentifiers : SetDelete(locale)

SpecCaller == InitCaller /\ [][NextCaller]_vars

\* The key paths given to fromValues: those of i18n.keys, and the invalid ones.
KeyPathInputs ==
  KeyPaths \cup {<<>>, <<"invalid">>, <<"nested">>, <<"child">>, <<"nested", "invalid">>,
                 <<"nested", "child", "invalid">>, <<"bar", "invalid">>}

InitKeys ==
  /\ Unconstructed
  /\ pathname = <<"/">> \o foo
  /\ args = <<>>

NextKeys ==
  \/ \E locales \in LocalesObjects, defaultLocaleArgument \in LocaleIdentifiers :
       Constructor(locales, defaultLocaleArgument)
  \/ \E locale \in LocaleIdentifiers : Localize(locale)
  \/ \E locale \in LocaleIdentifiers, ref \in 1..MaxObjects, keyPath \in KeyPathInputs :
       FromValues(locale, ref, keyPath)

\* Key paths resolved against the objects localize returned.
SpecKeys == InitKeys /\ [][NextKeys]_vars

\* The pathname methods alone, on every pathname of Pathnames.
NextPathname ==
  \/ \E locales \in LocalesObjects, defaultLocaleArgument \in LocaleIdentifiers :
       Constructor(locales, defaultLocaleArgument)
  \/ GetLocaleIdentifierFromPathname
  \/ GetCanonicalPathname
  \/ \E locale \in LocaleIdentifiers : LocalizePathname(locale)

SpecPathname == InitPathname /\ [][NextPathname]_vars

\* ------------------------------------------------------------------ claims

\* The keys of the Locale Table.
LocaleTableKeys == DOMAIN localesObject

\* The first path component of p read character by character: the text between the
\* first '/' and the second (or the end); undefined if p holds no '/'.
FirstPathComponent(p) ==
  LET slashes == {i \in 1..Len(p) : p[i] = "/"}
  IN IF slashes = {} THEN undefined
     ELSE LET first == CHOOSE i \in slashes : \A j \in slashes : i <= j
              later == {i \in slashes : i > first}
              second == IF later = {} THEN Len(p) + 1
                        ELSE CHOOSE i \in later : \A j \in later : i <= j
          IN SubSeq(p, first + 1, second - 1)

StartsWith(p, prefix) == substring(p, 0, Len(prefix)) = prefix

Returned(op) == result.op = op /\ result.threw = "none"

\* C1: every successful localize(l) returns the same accessor tree (the same
\* reference) as the first one for l, and at most one tree is built per locale.
C1_Memoization ==
  /\ \A a, b \in localizers : a[1] = b[1] => a[2] = b[2]
  /\ Len(heap) = Cardinality({a[1] : a \in localizers})
  /\ Returned("localize") => <<result.locale, result.ref>> \in localizers

\* localize(en) returns, from the cache, the tree built first, after fr was built too.
C1_Witness ==
  /\ Returned("localize") /\ result.locale = en /\ result.ref = 1
  /\ Len(heap) = 2

\* C2: the constructor, localize and localizePathname fail with LocaleNotFound exactly
\* when the locale identifier they are given is not a key of the Locale Table.
C2_LocaleNotFound ==
  /\ result.op \in {"constructor", "localize", "localizePathname"} =>
       (result.threw = "LocalNotFoundError" <=> result.locale \notin LocaleTableKeys)
  /\ pc = "thrown" <=> (result.op = "constructor" /\ result.threw = "LocalNotFoundError")

\* localizePathname fails for fr, a locale the table {en} does not hold.
C2_Witness ==
  /\ result.op = "localizePathname" /\ result.threw = "LocalNotFoundError"
  /\ result.locale = fr /\ LocaleTableKeys = {en}

\* C3: getLocaleIdentifierFromPathname(p) returns l exactly when the first path
\* component of p is equal to an available locale identifier l, and null otherwise.
C3_SegmentExactness ==
  Returned("getLocaleIdentifierFromPathname") =>
    LET component == FirstPathComponent(result.pathname)
    IN result.ret = IF component \in LocaleTableKeys THEN component ELSE null

\* "/enfoo" with en available: null.
C3_Witness ==
  /\ Returned("getLocaleIdentifierFromPathname")
  /\ result.pathname = <<"/">> \o enfoo
  /\ en \in LocaleTableKeys
  /\ result.ret = null

\* C4: getCanonicalPathname(p) is p when p holds no locale; otherwise it is p without
\* its first path component, every other segment kept in order, so that
\* getCanonicalPathname("/" + l + rest) is rest for rest beginning with '/'.
C4_CanonicalPathname ==
  Returned("getCanonicalPathname") =>
    LET p == result.pathname
        component == FirstPathComponent(p)
        segments == split(p)
        rest == substring(p, Len(component) + 1, Len(p))
    IN IF component \notin LocaleTableKeys THEN result.ret = p
       ELSE /\ split(result.ret) = [i \in 1..(Len(segments) - 1) |->
                                      IF i = 1 THEN segments[1] ELSE segments[i + 1]]
            /\ (StartsWith(p, <<"/">> \o component) /\ StartsWith(rest, <<"/">>)) =>
                 result.ret = rest

\* "/en/en/foo" gives "/en/foo".
C4_Witness ==
  /\ Returned("getCanonicalPathname")
  /\ result.pathname = <<"/">> \o en \o <<"/">> \o en \o <<"/">> \o foo
  /\ result.ret = <<"/">> \o en \o <<"/">> \o foo

\* C5: for every pathname p that begins with '/', getCanonicalPathname(p) begins with
\* '/', and getCanonicalPathname("/" + l) is "/" for an available l.
C5_CanonicalBeginsWithSlash ==
  (Returned("getCanonicalPathname") /\ StartsWith(result.pathname, <<"/">>)) =>
    /\ StartsWith(result.ret, <<"/">>)
    /\ \A l \in LocaleTableKeys : result.pathname = <<"/">> \o l => result.ret = <<"/">>

\* C6: for p beginning with '/' whose first path component is not an available locale,
\* getCanonicalPathname(localizePathname(p, l)) is p.
C6_RoundTrip ==
  (/\ Returned("localizePathname")
   /\ StartsWith(result.pathname, <<"/">>)
   /\ FirstPathComponent(result.pathname) \notin LocaleTableKeys) =>
    getCanonicalPathname(result.ret) = result.pathname

\* localizePathname("/foo", en) is "/en/foo", whose canonical pathname is "/foo".
C6_Witness ==
  /\ Returned("localizePathname")
  /\ result.pathname = <<"/">> \o foo /\ result.locale = en
  /\ result.ret = <<"/">> \o en \o <<"/">> \o foo
  /\ getCanonicalPathname(result.ret) = <<"/">> \o foo

\* C7: localizePathname(localizePathname(p, l), l) is localizePathname(p, l).
C7_Idempotent ==
  Returned("localizePathname") =>
    localizePathname(result.ret, result.locale) = result.ret

\* A pathname without a leading '/': "foo/fr" localized to en, then again.
C7_Witness ==
  /\ Returned("localizePathname")
  /\ result.pathname = foo \o <<"/">> \o fr /\ result.locale = en
  /\ fr \in LocaleTableKeys
  /\ result.ret = foo \o <<"/">> \o en
  /\ localizePathname(result.ret, en) = result.ret

\* C8: localizePathname("/" + l1 + rest, l2) is "/" + l2 + rest for available l1, l2
\* and rest empty or beginning with '/'; and localizePathname(p, l2) is "/" + l2 + p
\* for p beginning with '/' whose first path component is not an available locale.
C8_ReLocalization ==
  Returned("localizePathname") =>
    LET p == result.pathname
        component == FirstPathComponent(p)
        rest == substring(p, Len(component) + 1, Len(p))
    IN /\ (/\ component \in LocaleTableKeys
           /\ StartsWith(p, <<"/">> \o component)
           /\ (rest = <<>> \/ StartsWith(rest, <<"/">>))) =>
            result.ret = <<"/">> \o result.locale \o rest
       /\ (StartsWith(p, <<"/">>) /\ component \notin LocaleTableKeys) =>
            result.ret = <<"/">> \o result.locale \o p

\* localizePathname("/fr/foo", en) is "/en/foo".
C8_Witness ==
  /\ Returned("localizePathname")
  /\ result.pathname = <<"/">> \o fr \o <<"/">> \o foo /\ result.locale = en
  /\ fr \in LocaleTableKeys
  /\ result.ret = <<"/">> \o en \o <<"/">> \o foo

\* t with every occurrence of pattern replaced by value, read left to right, value
\* taken as it is.
RECURSIVE ReplaceEvery(_, _, _)
ReplaceEvery(t, pattern, value) ==
  IF t = <<>> THEN <<>>
  ELSE IF StartsWith(t, pattern)
  THEN value \o ReplaceEvery(substring(t, Len(pattern), Len(t)), pattern, value)
  ELSE <<Head(t)>> \o ReplaceEvery(Tail(t), pattern, value)

\* t with "{k}" replaced by the stringified value of k, for each key k of the argument
\* mapping in its iteration order.
RECURSIVE Interpolated(_, _)
Interpolated(t, entries) ==
  IF entries = <<>> THEN t
  ELSE Interpolated(ReplaceEvery(t, <<"{">> \o entries[1][1] \o <<"}">>,
                                 String(entries[1][2])),
                    Tail(entries))

\* The template at keyPath of a locale object.
RECURSIVE Template(_, _)
Template(object, keyPath) ==
  IF Len(keyPath) = 1 THEN object[keyPath[1]].str
  ELSE Template(object[keyPath[1]].obj, Tail(keyPath))

\* C9: the Accessor of template t returns t with every occurrence of "{k}" replaced by
\* the stringified args[k] for each key k of args; other placeholders stay verbatim,
\* unused arguments have no effect, and without arguments it returns t.
C9_Interpolation ==
  Returned("accessor") =>
    result.ret = Interpolated(Template(localesObject[result.locale], result.keyPath),
                              result.args)

\* C10: a call of localize or localizePathname that fails with LocaleNotFound leaves the
\* cache, the available locale identifiers and the default locale as they were, and the
\* cache never holds an entry for an identifier that is not available.
C10_FailureAtomicity ==
  [][/\ (result'.op \in {"localize", "localizePathname"} /\ result'.threw # "none") =>
          UNCHANGED <<cachedLocales, heap, localesObject, availableLocalesIdentifiers,
                      defaultLocaleIdentifier>>
     /\ DOMAIN cachedLocales' \subseteq availableLocalesIdentifiers']_vars

\* localize(cn) has failed on a manager whose cache holds en and fr.
C10_Witness ==
  /\ result.op = "localize" /\ result.threw = "LocalNotFoundError" /\ result.locale = cn
  /\ DOMAIN cachedLocales = {en, fr}

\* C11: after construction, whatever is called and whatever a caller does to a Set that
\* availableLocales returned, availableLocales is the set of the Locale Table keys,
\* defaultLocale is the constructor's argument, and it is one of availableLocales.
C11_ManagerFixed ==
  [][pc' = "ready" =>
       /\ availableLocales'.elements = LocaleTableKeys'
       /\ defaultLocale' \in availableLocales'.elements
       /\ pc = "new" => defaultLocale' = result'.locale
       /\ pc = "ready" => /\ defaultLocale' = defaultLocale
                          /\ availableLocales'.elements = availableLocales.elements
                          /\ LocaleTableKeys' = LocaleTableKeys]_vars

\* The caller has emptied the Set it was given; the manager still holds en and fr.
C11_Witness ==
  /\ result.op = "availableLocales" /\ result.value.elements = {}
  /\ availableLocales.elements = {en, fr}
  /\ defaultLocale = fr

\* C12: the cache starts empty; no step removes or replaces an entry; the cache changes
\* only in a successful localize(l) for an l not yet cached, which adds the entry of l
\* and changes nothing else of the manager; the pathname methods and the two getters
\* leave the cache as it is.
C12_CacheMonotonic ==
  [][/\ pc = "new" => cachedLocales = <<>>
     /\ \A l \in DOMAIN cachedLocales :
          l \in DOMAIN cachedLocales' /\ cachedLocales'[l] = cachedLocales[l]
     /\ cachedLocales' # cachedLocales =>
          /\ result'.op = "localize" /\ result'.threw = "none"
          /\ result'.locale \notin DOMAIN cachedLocales
          /\ DOMAIN cachedLocales' = DOMAIN cachedLocales \cup {result'.locale}
          /\ cachedLocales'[result'.locale] = result'.ref
          /\ UNCHANGED manager
     /\ result'.op \in {"getLocaleIdentifierFromPathname", "getCanonicalPathname",
                        "localizePathname", "availableLocales", "defaultLocale"} =>
          UNCHANGED <<cachedLocales, heap>>]_vars

\* localize(fr) has added the second entry; the entry of en is the one built first.
C12_Witness ==
  /\ Returned("localize") /\ result.locale = fr /\ result.ref = 2
  /\ DOMAIN cachedLocales = {en, fr} /\ cachedLocales[en] = 1

\* The leaf paths that i18n.keys exposes for a Translation Tree.
RECURSIVE KeyPathsOf(_)
KeyPathsOf(keysTree) ==
  UNION {IF "path" \in DOMAIN keysTree[key] THEN {keysTree[key].path}
         ELSE KeyPathsOf(keysTree[key].obj) : key \in DOMAIN keysTree}

\* C13: fromValues(tree, keyPath) returns the leaf at keyPath, the value of the direct
\* nested access, exactly when keyPath is the path of one leaf of tree (one of those
\* i18n.keys exposes); for every other keyPath it fails with InvalidPath.
C13_FromValues ==
  result.op = "fromValues" =>
    /\ AccessorPaths(heap[result.ref]) = KeyPathsOf(keys(localesObject[result.locale], <<>>))
    /\ IF result.keyPath \in AccessorPaths(heap[result.ref])
       THEN /\ result.threw = "none"
            /\ result.value = Member(heap[result.ref], result.keyPath)
            /\ "closure" \in DOMAIN result.value
       ELSE /\ result.threw = "InvalidPathError"
            /\ result.value = NoValue

\* fromValues(localize(fr), i18n.keys.nested.child) has returned the Accessor of 'enfant'.
C13_Witness ==
  /\ result.op = "fromValues" /\ result.locale = fr /\ result.threw = "none"
  /\ result.keyPath = keys(localesObject[fr], <<>>).nested.obj.child.path
  /\ result.value = [closure |-> <<"e", "n", "f", "a", "n", "t">>]

\* The first two path components of p are both available locale identifiers,
\* as in "/en/fr/foo".
TwoLocaleComponents(p) ==
  LET segments == split(p)
  IN /\ Len(segments) >= 3
     /\ segments[2] \in LocaleTableKeys
     /\ segments[3] \in LocaleTableKeys

\* C14 as stated: the result of getCanonicalPathname(p) carries no locale identifier
\* and is its own canonical pathname, for every p.
C14_LocaleFree ==
  Returned("getCanonicalPathname") =>
    /\ getLocaleIdentifierFromPathname(result.ret) = null
    /\ getCanonicalPathname(result.ret) = result.ret

\* C14, amended: the result of getCanonicalPathname(p) carries no locale identifier and
\* is its own canonical pathname unless the first two path components of p are both
\* available locale identifiers; then one component is removed, the second is the
\* locale identifier of the result, and the result is not its own canonical pathname.
C14_LocaleFreeUnlessTwoLocales ==
  Returned("getCanonicalPathname") =>
    IF TwoLocaleComponents(result.pathname)
    THEN /\ getLocaleIdentifierFromPathname(result.ret) = split(result.pathname)[3]
         /\ getCanonicalPathname(result.ret) # result.ret
    ELSE /\ getLocaleIdentifierFromPathname(result.ret) = null
         /\ getCanonicalPathname(result.ret) = result.ret

\* getCanonicalPathname("/en/foo") is "/foo", which carries no locale identifier.
C14_Witness ==
  /\ Returned("getCanonicalPathname")
  /\ result.pathname = <<"/">> \o en \o <<"/">> \o foo
  /\ result.ret = <<"/">> \o foo
  /\ getLocaleIdentifierFromPathname(result.ret) = null

\* C15: for every pathname p and available locale l, the locale identifier of
\* localizePathname(p, l) is l and its canonical pathname is that of p.
C15_LocaleFirst ==
  Returned("localizePathname") =>
    /\ getLocaleIdentifierFromPathname(result.ret) = result.locale
    /\ FirstPathComponent(result.ret) = result.locale
    /\ getCanonicalPathname(result.ret) = getCanonicalPathname(result.pathname)

\* localizePathname("", en) is "/en", whose canonical pathname is "" again.
C15_Witness ==
  /\ Returned("localizePathname")
  /\ result.pathname = <<>> /\ result.locale = en
  /\ result.ret = <<"/">> \o en
  /\ getCanonicalPathname(result.ret) = <<>>

\* The same key/value pairs in every iteration order.
Reorderings(entries) ==
  {other \in [1..Len(entries) -> {entries[i] : i \in 1..Len(entries)}] :
     \A i \in 1..Len(entries) : \E j \in 1..Len(entries) : other[j] = entries[i]}

BraceFree(s) == \A i \in 1..Len(s) : s[i] \notin {"{", "}"}

\* The braces of t only delimit placeholders "{name}": an opening brace is followed by
\* a closing one before any other brace, and a closing brace follows an opening one.
PlaceholdersOnly(t) ==
  \A i \in 1..Len(t) :
    /\ t[i] = "{" =>
         \E j \in (i + 1)..Len(t) : t[j] = "}" /\ BraceFree(SubSeq(t, i + 1, j - 1))
    /\ t[i] = "}" =>
         \E j \in 1..(i - 1) : t[j] = "{" /\ BraceFree(SubSeq(t, j + 1, i - 1))

\* A stringified argument value without a brace, in which a "$" is followed by "$" or
\* "&" only: no replacement pattern of it inserts the text around the match.
PlainValue(s) ==
  /\ BraceFree(s)
  /\ \A i \in 1..(Len(s) - 1) : s[i] = "$" => s[i + 1] \in {"$", "&"}

\* C16 as stated: the Accessor returns the same string for the same key/value pairs in
\* every iteration order, whatever the values are.
C16_OrderIndependent ==
  Returned("accessor") =>
    \A other \in Reorderings(result.args) :
      Accessor(Member(heap[result.ref], result.keyPath).closure, other) = result.ret

\* C16, amended: for a template whose braces only delimit placeholders, argument keys
\* without a brace and stringified argument values without a brace (and without a "$"
\* followed by anything but "$" or "&"), the Accessor returns the same string for the
\* same key/value pairs in every iteration order.
C16_OrderIndependentPlain ==
  (/\ Returned("accessor")
   /\ PlaceholdersOnly(Member(heap[result.ref], result.keyPath).closure)
   /\ \A i \in 1..Len(result.args) :
        BraceFree(result.args[i][1]) /\ PlainValue(String(result.args[i][2]))) =>
    \A other \in Reorderings(result.args) :
      Accessor(Member(heap[result.ref], result.keyPath).closure, other) = result.ret

\* The Accessor of "{a}{b}{a}" called with {a: "X", b: 42} has returned "X42X".
C16_Witness ==
  /\ Returned("accessor")
  /\ result.keyPath = <<"pair">>
  /\ result.args = << <<<<"a">>, [s |-> <<"X">>]>>, <<<<"b">>, [n |-> 42]>> >>
  /\ result.ret = <<"X", "4", "2", "X">>
  /\ Accessor(Member(heap[result.ref], result.keyPath).closure,
              << <<<<"b">>, [n |-> 42]>>, <<<<"a">>, [s |-> <<"X">>]>> >>) = result.ret

====
